---- MODULE Spec2Model ----
(***************************************************************************)
(* A model of gretchen (src/src/index.ts): the request executor that wraps *)
(* fetch with JSON negotiation, retry on 429 and throw-on-error.           *)
(*                                                                         *)
(* JavaScript values are pairs <<type, payload>> whose payload is a        *)
(* sequence of strings, so that any two values can be compared.            *)
(***************************************************************************)
EXTENDS Integers, Sequences, FiniteSets, TLC

VARIABLES
    input,          \* the caller's first argument: a string, a URL or a Request
    gretchenInit,   \* the caller's second argument: keys to values
    server,         \* what the server will answer to the next transport calls
    clock,          \* wall-clock time, epoch milliseconds (Date.now())
    pc,             \* "start", "fetching", "sleeping" or "done"
    init,           \* the RequestInit handed to fetch
    nowEpoch,       \* Date.now() recorded at the start of the current attempt
    response,       \* the response of the last completed transport call
    calls,          \* every transport call made, in order: its target, its
                    \* options and the time it was issued
    replies,        \* every reply the transport gave, in order
    timers,         \* every delay handed to setTimeout, in order
    outcome,        \* how the returned Promise settled
    initDefaults,   \* the object createGretchen was given, which it captured
    boundDefaults,  \* what that object held when createGretchen was called
    invocations     \* the invocations of the function createGretchen returned

vars == <<input, gretchenInit, server, clock, pc, init, nowEpoch, response,
          calls, replies, timers, outcome, initDefaults, boundDefaults,
          invocations>>

\* The state of one call of gretchen, and the state of a created function.
direct == <<input, gretchenInit, server, pc, init, nowEpoch, response, calls,
            replies, timers, outcome>>
created == <<initDefaults, boundDefaults, invocations>>

-----------------------------------------------------------------------------
(* JavaScript values *)

Undefined == <<"undefined", <<>>>>
Null == <<"null", <<>>>>
True == <<"boolean", <<"true">>>>
False == <<"boolean", <<"false">>>>
Zero == <<"number", <<"0">>>>
Str(s) == <<"string", <<s>>>>
\* A flat object: its payload lists key, value, key, value, ...
Obj(kv) == <<"object", kv>>

TypeOf(v) == v[1]
\* The text of a string value.
Text(v) == v[2][1]

\* ToBoolean: undefined, null, false, 0 and "" are falsy.
Truthy(v) ==
    ~ (v \in {Undefined, Null, False, Zero, Str("")})

\* x == null in JavaScript: true of null and of undefined.
IsNullish(v) == v \in {Undefined, Null}

\* obj.key: the value under the key, undefined when the key is absent.
Get(obj, key) == IF key \in DOMAIN obj THEN obj[key] ELSE Undefined

\* { ...obj, key: value }
Put(obj, key, value) ==
    [k \in DOMAIN obj \cup {key} |-> IF k = key THEN value ELSE obj[k]]

-----------------------------------------------------------------------------
(* JSON.stringify and JSON.parse on the values above *)

RECURSIVE Members(_, _)
\* The members of a flat object from position i on: "k":"v","k":"v"
Members(kv, i) ==
    IF i > Len(kv) THEN ""
    ELSE "\"" \o kv[i] \o "\":\"" \o kv[i + 1] \o "\""
         \o (IF i + 2 > Len(kv) THEN "" ELSE ",")
         \o Members(kv, i + 2)

\* JSON.stringify(v): a string value, or undefined for undefined.
JSONstringify(v) ==
    CASE TypeOf(v) = "undefined" -> Undefined
      [] TypeOf(v) = "null" -> Str("null")
      [] TypeOf(v) = "boolean" -> Str(v[2][1])
      [] TypeOf(v) = "number" -> Str(v[2][1])
      [] TypeOf(v) = "string" -> Str("\"" \o v[2][1] \o "\"")
      [] TypeOf(v) = "object" -> Str("{" \o Members(v[2], 1) \o "}")

\* The values JSON.parse can yield here.
JSONValues ==
    {Null, False, Zero, Str(""), Str("pink"),
     Obj(<<"Wednesday", "pink">>), Obj(<<"foo", "bar">>)}

\* Whether JSON.parse(text) succeeds (it throws SyntaxError otherwise).
JSONparses(text) == \E v \in JSONValues : JSONstringify(v) = Str(text)

\* JSON.parse(text), for a text that parses.
JSONparse(text) == CHOOSE v \in JSONValues : JSONstringify(v) = Str(text)

-----------------------------------------------------------------------------
(* Headers: <<"Headers", <<name, value, name, value, ...>>>> with lower-case *)
(* names, each once.  A plain object of headers is an Obj of the same shape *)
(* whose names keep the caller's letter case.                               *)

\* ASCII lower-casing of the header names in use.
Lower(name) ==
    CASE name \in {"Accept", "ACCEPT", "accept"} -> "accept"
      [] name \in {"Content-Type", "CONTENT-TYPE", "content-type"} -> "content-type"
      [] name \in {"Retry-After", "retry-after"} -> "retry-after"
      [] OTHER -> name

\* The position of a (lower-case) name in a list of headers, 0 when absent.
RECURSIVE IndexOf(_, _, _)
IndexOf(list, name, i) ==
    IF i > Len(list) THEN 0
    ELSE IF list[i] = name THEN i
    ELSE IndexOf(list, name, i + 2)

\* Headers.prototype.append on the list: a repeated name combines its values.
ListAppend(list, name, value) ==
    LET i == IndexOf(list, Lower(name), 1) IN
    IF i = 0 THEN list \o <<Lower(name), value>>
    ELSE [list EXCEPT ![i + 1] = list[i + 1] \o ", " \o value]

RECURSIVE Fill(_, _, _)
\* Appends the entries of kv from position i on to the list.
Fill(list, kv, i) ==
    IF i > Len(kv) THEN list
    ELSE Fill(ListAppend(list, kv[i], kv[i + 1]), kv, i + 2)

\* new Headers(h): a fresh Headers holding the entries of h (none for undefined).
NewHeaders(h) ==
    IF TypeOf(h) = "undefined" THEN <<"Headers", <<>>>>
    ELSE <<"Headers", Fill(<<>>, h[2], 1)>>

\* headers.get(name): the value, or null when there is none.
HeadersGet(h, name) ==
    LET i == IndexOf(h[2], Lower(name), 1) IN
    IF i = 0 THEN Null ELSE Str(h[2][i + 1])

\* headers.set(name, value): replaces the value or adds the header.
HeadersSet(h, name, value) ==
    LET i == IndexOf(h[2], Lower(name), 1) IN
    IF i = 0 THEN <<"Headers", h[2] \o <<Lower(name), value>>>>
    ELSE <<"Headers", [h[2] EXCEPT ![i + 1] = value]>>

-----------------------------------------------------------------------------
(* Responses *)

StatusText(status) ==
    CASE status = 200 -> "OK"
      [] status = 429 -> "Too Many Requests"
      [] status = 500 -> "Internal Server Error"
      [] status = 503 -> "Service Unavailable"
      [] OTHER -> ""

\* A response: retryAfter is the Retry-After header's value, Null for none.
Response(status, retryAfter, text) ==
    [status |-> status,
     statusText |-> StatusText(status),
     headers |-> IF IsNullish(retryAfter) THEN <<"Headers", <<>>>>
                 ELSE <<"Headers", <<"retry-after", Text(retryAfter)>>>>,
     body |-> text]

\* response.ok: the status is in the range 200-299.
Ok(r) == r.status >= 200 /\ r.status <= 299

NoResponse == [status |-> 0, statusText |-> "", headers |-> <<"Headers", <<>>>>,
               body |-> ""]

-----------------------------------------------------------------------------
(* The Retry-After header *)

TooManyRequests == 429
MsPerSecond == 1000

DatePast == "Thu, 01 Jan 1970 00:00:01 GMT"
DateFuture == "Thu, 01 Jan 1970 00:00:03 GMT"

\* The Retry-After values the server may send.
RetryAfterTexts == {"1", "02", "foo", "", DatePast, DateFuture}

\* The characters of a header value, for the values above.
Chars(s) ==
    CASE s = "1" -> <<"1">>
      [] s = "02" -> <<"0", "2">>
      [] s = "foo" -> <<"f", "o", "o">>
      [] s = "" -> <<>>
      [] s = DatePast -> <<"T", "h", "u", ",", " ", "0", "1", " ", "J", "a", "n",
                           " ", "1", "9", "7", "0", " ", "0", "0", ":", "0", "0",
                           ":", "0", "1", " ", "G", "M", "T">>
      [] s = DateFuture -> <<"T", "h", "u", ",", " ", "0", "1", " ", "J", "a", "n",
                             " ", "1", "9", "7", "0", " ", "0", "0", ":", "0", "0",
                             ":", "0", "3", " ", "G", "M", "T">>

Digits == <<"0", "1", "2", "3", "4", "5", "6", "7", "8", "9">>

\* The value of a decimal digit.
DigitValue(c) == (CHOOSE i \in 1..10 : Digits[i] = c) - 1

\* s.match(/^\d+$/): one or more characters, all decimal digits.
MatchesDigits(s) ==
    LET c == Chars(s) IN
    Len(c) > 0 /\ \A i \in 1..Len(c) : \E d \in 1..10 : Digits[d] = c[i]

RECURSIVE DecimalValue(_, _)
\* The number written by the first n digits of c.
DecimalValue(c, n) ==
    IF n = 0 THEN 0 ELSE 10 * DecimalValue(c, n - 1) + DigitValue(c[n])

\* Number(s), for a string of decimal digits.
ToNumber(s) == DecimalValue(Chars(s), Len(Chars(s)))

\* Whether new Date(s) is a valid date: Number(new Date(s)) is not NaN.
IsDate(s) == s \in {DatePast, DateFuture}

\* Number(new Date(s)) for a valid date: its epoch milliseconds.  The seconds
\* field of the dates above is read from the text.
DateToNumber(s) ==
    LET c == Chars(s) IN
    MsPerSecond * (10 * DigitValue(c[24]) + DigitValue(c[25]))

-----------------------------------------------------------------------------
(* gretchen: option resolution, lines 115-146 *)

\* The keys the destructuring takes out of gretchenInit.
Destructured ==
    {"body", "requestJSON", "retryOnTooManyRequests", "returnJSON", "sendJSON",
     "throwOnError"}

\* Faulty variant: throwOnError is not taken out of gretchenInit.
Rest_KeepsThrowOnError(cfg) ==
    [k \in DOMAIN cfg \ (Destructured \ {"throwOnError"}) |-> cfg[k]]

\* const { body, requestJSON, ..., ...rest } = { ...gretchenInit }
Rest(cfg) == [k \in DOMAIN cfg \ Destructured |-> cfg[k]]

\* Faulty variant: the accept header is set over the caller's.
AcceptStep_Overwrites(rest, cfg) ==
    IF Truthy(Get(cfg, "requestJSON")) \/ Truthy(Get(cfg, "returnJSON"))
    THEN Put(rest, "headers",
             HeadersSet(NewHeaders(Get(rest, "headers")), "accept",
                        "application/json"))
    ELSE rest

\* if (requestJSON || returnJSON) { ... accept ... }
AcceptStep(rest, cfg) ==
    IF Truthy(Get(cfg, "requestJSON")) \/ Truthy(Get(cfg, "returnJSON"))
    THEN LET h == NewHeaders(Get(rest, "headers")) IN
         Put(rest, "headers",
             IF IsNullish(HeadersGet(h, "accept"))
             THEN HeadersSet(h, "accept", "application/json")
             ELSE h)
    ELSE rest

\* Faulty variant: if (sendJSON && body), a falsy body is not serialized.
SendsJSON_TruthyBody(cfg) ==
    Truthy(Get(cfg, "sendJSON")) /\ Truthy(Get(cfg, "body"))

\* Faulty variant: if (sendJSON), an undefined body is serialized too.
SendsJSON_OptionOnly(cfg) == Truthy(Get(cfg, "sendJSON"))

\* if (sendJSON && body !== undefined)
SendsJSON(cfg) ==
    Truthy(Get(cfg, "sendJSON")) /\ Get(cfg, "body") # Undefined

\* Faulty variant: init.headers = new Headers(), which leaves out the headers
\* init had.
BodyStep_FreshHeaders(rest, cfg) ==
    IF SendsJSON(cfg)
    THEN LET m == IF IsNullish(Get(rest, "method"))
                  THEN Put(rest, "method", Str("POST"))
                  ELSE rest
             c == Put(m, "headers",
                      HeadersSet(NewHeaders(Undefined), "content-type",
                                 "application/json"))
         IN  Put(c, "body", JSONstringify(Get(cfg, "body")))
    ELSE Put(rest, "body", Get(cfg, "body"))

\* if (sendJSON && body !== undefined) { ... } else { init.body = body }
BodyStep(rest, cfg) ==
    IF SendsJSON(cfg)
    THEN LET m == IF IsNullish(Get(rest, "method"))
                  THEN Put(rest, "method", Str("POST"))
                  ELSE rest
             h == NewHeaders(Get(m, "headers"))
             c == Put(m, "headers",
                      IF IsNullish(HeadersGet(h, "content-type"))
                      THEN HeadersSet(h, "content-type", "application/json")
                      ELSE h)
         IN  Put(c, "body", JSONstringify(Get(cfg, "body")))
    ELSE Put(rest, "body", Get(cfg, "body"))

\* Faulty variant: a Request is not told from a string or a URL.
IsRequest_Never(in) == FALSE

\* input instanceof Request
IsRequest(in) == TypeOf(in) = "Request"

\* Faulty variant: init.body = body is done for a Request too.
ResolveInit_BodyForRequest(in, cfg) ==
    IF IsRequest(in) THEN Put(Rest(cfg), "body", Get(cfg, "body"))
    ELSE BodyStep(AcceptStep(Rest(cfg), cfg), cfg)

\* The RequestInit handed to fetch, lines 126-146.
ResolveInit(in, cfg) ==
    IF IsRequest(in) THEN Rest(cfg)
    ELSE BodyStep(AcceptStep(Rest(cfg), cfg), cfg)

-----------------------------------------------------------------------------
(* gretchen: the retry decision and the finalization, lines 150-180 *)

\* Faulty variant: the 429 is retried whether or not retryOnTooManyRequests is set.
Retries_IgnoresOption(cfg, r) ==
    /\ r.status = TooManyRequests
    /\ LET retryAfter == HeadersGet(r.headers, "retry-after") IN
       /\ ~ IsNullish(retryAfter)
       /\ MatchesDigits(Text(retryAfter)) \/ IsDate(Text(retryAfter))

\* Faulty variant: a response with a Retry-After is retried whatever its status.
Retries_WhateverTheStatus(cfg, r) ==
    /\ Truthy(Get(cfg, "retryOnTooManyRequests"))
    /\ LET retryAfter == HeadersGet(r.headers, "retry-after") IN
       /\ ~ IsNullish(retryAfter)
       /\ MatchesDigits(Text(retryAfter)) \/ IsDate(Text(retryAfter))

\* Whether the response is retried, lines 150-153 and 161-162.
Retries(cfg, r) ==
    /\ Truthy(Get(cfg, "retryOnTooManyRequests"))
    /\ r.status = TooManyRequests
    /\ LET retryAfter == HeadersGet(r.headers, "retry-after") IN
       /\ ~ IsNullish(retryAfter)
       /\ MatchesDigits(Text(retryAfter)) \/ IsDate(Text(retryAfter))

Max(a, b) == IF a >= b THEN a ELSE b

\* Faulty variant: the seconds of Retry-After are handed to setTimeout as they are.
Delay_InSeconds(r, now) ==
    LET retryAfter == Text(HeadersGet(r.headers, "retry-after")) IN
    IF MatchesDigits(retryAfter)
    THEN ToNumber(retryAfter)
    ELSE Max(0, DateToNumber(retryAfter) - now)

\* Faulty variant: the delay to a date is not clamped at zero.
Delay_NotClamped(r, now) ==
    LET retryAfter == Text(HeadersGet(r.headers, "retry-after")) IN
    IF MatchesDigits(retryAfter)
    THEN ToNumber(retryAfter) * MsPerSecond
    ELSE DateToNumber(retryAfter) - now

\* The delay handed to setTimeout for a retried response, lines 154-155, 163.
Delay(r, now) ==
    LET retryAfter == Text(HeadersGet(r.headers, "retry-after")) IN
    IF MatchesDigits(retryAfter)
    THEN ToNumber(retryAfter) * MsPerSecond
    ELSE Max(0, DateToNumber(retryAfter) - now)

\* Faulty variant: a 429 without a Retry-After header is retried at once.
RetryDecision_RetriesWithoutHeader(cfg, r, now) ==
    IF Retries(cfg, r) THEN [retry |-> TRUE, delay |-> Delay(r, now)]
    ELSE IF /\ Truthy(Get(cfg, "retryOnTooManyRequests"))
            /\ r.status = TooManyRequests
            /\ IsNullish(HeadersGet(r.headers, "retry-after"))
         THEN [retry |-> TRUE, delay |-> 0]
         ELSE [retry |-> FALSE, delay |-> 0]

\* What follows a response: a retry after a delay, or the finalization.
RetryDecision(cfg, r, now) ==
    IF Retries(cfg, r) THEN [retry |-> TRUE, delay |-> Delay(r, now)]
    ELSE [retry |-> FALSE, delay |-> 0]

Pending ==
    [state |-> "pending", kind |-> "", message |-> "", value |-> Undefined,
     response |-> NoResponse]

\* throw new HTTPError(`${response.status} ${response.statusText}`, response)
HTTPError(r) ==
    [state |-> "rejected", kind |-> "HTTPError",
     message |-> ToString(r.status) \o " " \o r.statusText,
     value |-> Undefined, response |-> r]

\* response.json(): the parsed body, or a SyntaxError.
Json(r) ==
    IF JSONparses(r.body)
    THEN [state |-> "fulfilled", kind |-> "JSON", message |-> "",
          value |-> JSONparse(r.body), response |-> r]
    ELSE [state |-> "rejected", kind |-> "SyntaxError", message |-> "",
          value |-> Undefined, response |-> r]

\* The response itself.
Returned(r) ==
    [state |-> "fulfilled", kind |-> "Response", message |-> "",
     value |-> Undefined, response |-> r]

\* Faulty variant: throwOnError throws on every response, successful or not.
Throws_WhateverTheStatus(cfg, r) == Truthy(Get(cfg, "throwOnError"))

\* if (throwOnError && !response.ok)
Throws(cfg, r) == Truthy(Get(cfg, "throwOnError")) /\ ~ Ok(r)

\* Faulty variant: returnJSON is looked at before throwOnError.
Finalize_JSONFirst(cfg, r) ==
    IF Truthy(Get(cfg, "returnJSON")) THEN Json(r)
    ELSE IF Throws(cfg, r) THEN HTTPError(r)
    ELSE Returned(r)

\* How the invocation settles on a response that is not retried, lines 172-180.
Finalize(cfg, r) ==
    IF Throws(cfg, r) THEN HTTPError(r)
    ELSE IF Truthy(Get(cfg, "returnJSON")) THEN Json(r)
    ELSE Returned(r)

\* A failure of fetch, propagated as it is.
TransportFailure ==
    [state |-> "rejected", kind |-> "TypeError", message |-> "fetch failed",
     value |-> Undefined, response |-> NoResponse]

-----------------------------------------------------------------------------
(* The inputs: the caller's arguments and the server's behaviour *)

MaxScript == 2
MaxTicks == 1
MsPerTick == 500

\* Marks a key the caller leaves out.
Absent == <<"absent", <<>>>>

\* The object holding the keys of a record that are not marked absent.
Keep(rec) == [k \in {k \in DOMAIN rec : rec[k] # Absent} |-> rec[k]]

Url == "https://example.com/"
Targets == {Str(Url), <<"URL", <<Url>>>>, <<"Request", <<Url>>>>}

Bodies == {Null, False, Zero, Str(""), Obj(<<"Wednesday", "pink">>)}

CallerHeaders ==
    {Obj(<<"Accept", "text/html">>),
     Obj(<<"Content-Type", "application/json; charset=utf-8">>),
     Obj(<<"ACCEPT", "application/json; charset=utf-8", "content-type",
           "text/plain">>),
     Obj(<<"x-id", "7">>)}

\* Configurations that vary what the option resolution reads.
WideConfigs ==
    {Keep(rec) : rec \in
        [requestJSON : {Absent, True},
         returnJSON : {Absent, True},
         sendJSON : {Absent, True, False},
         retryOnTooManyRequests : {Absent, True},
         throwOnError : {Absent, True},
         body : Bodies \cup {Absent},
         method : {Absent, Str("PUT")},
         credentials : {Absent, Str("include")},
         headers : CallerHeaders \cup {Absent}]}

\* Configurations that vary what the retry loop and the finalization read.
LoopConfigs ==
    {Keep(rec) : rec \in
        [retryOnTooManyRequests : {Absent, True, False},
         throwOnError : {Absent, True, False},
         returnJSON : {Absent, True, False},
         body : {Absent, Str("pink")}]}

FooBar == "{\"foo\":\"bar\"}"

Reply(r) == [kind |-> "response", response |-> r]
Failure == [kind |-> "failure", response |-> NoResponse]

\* A 429 response with each Retry-After value, and with none.
Replies429 ==
    {Reply(Response(TooManyRequests, ra, "")) :
        ra \in {Null} \cup {Str(t) : t \in RetryAfterTexts}}

Replies ==
    Replies429 \cup
    {Reply(Response(200, Null, FooBar)), Reply(Response(200, Null, "")),
     Reply(Response(500, Null, FooBar)),
     Reply(Response(503, Str("1"), "")), Failure}

\* What the server answers, call after call: 429 responses, then any reply.
RECURSIVE ScriptsOfLen(_)
ScriptsOfLen(n) ==
    IF n = 1 THEN {<<r>> : r \in Replies}
    ELSE {<<r>> \o s : r \in Replies429, s \in ScriptsOfLen(n - 1)}

Scripts == UNION {ScriptsOfLen(n) : n \in 1..MaxScript}

BasicScripts ==
    {<<Reply(Response(200, Null, FooBar))>>,
     <<Reply(Response(500, Null, FooBar))>>,
     <<Reply(Response(TooManyRequests, Str("1"), "")),
       Reply(Response(200, Null, FooBar))>>,
     <<Failure>>}

Inputs ==
    [input : {Str(Url), <<"Request", <<Url>>>>}, config : WideConfigs,
     script : BasicScripts]
    \cup [input : Targets, config : LoopConfigs, script : Scripts]

StartEpochs == {2000}

-----------------------------------------------------------------------------
(* The invocation *)

Init ==
    /\ \E in \in Inputs :
          /\ input = in.input
          /\ gretchenInit = in.config
          /\ server = in.script
    /\ clock \in StartEpochs
    /\ pc = "start"
    /\ init = <<>>
    /\ nowEpoch = 0
    /\ response = NoResponse
    /\ calls = <<>>
    /\ replies = <<>>
    /\ timers = <<>>
    /\ outcome = Pending
    /\ initDefaults = <<>>
    /\ boundDefaults = <<>>
    /\ invocations = <<>>

\* The invocation as one value: the parameters and locals of the call, with
\* what it has done so far.
Self ==
    [input |-> input, gretchenInit |-> gretchenInit, server |-> server,
     pc |-> pc, init |-> init, nowEpoch |-> nowEpoch, response |-> response,
     calls |-> calls, replies |-> replies, timers |-> timers,
     outcome |-> outcome]

\* The invocation becomes s.
Becomes(s) ==
    /\ input' = s.input
    /\ gretchenInit' = s.gretchenInit
    /\ server' = s.server
    /\ pc' = s.pc
    /\ init' = s.init
    /\ nowEpoch' = s.nowEpoch
    /\ response' = s.response
    /\ calls' = s.calls
    /\ replies' = s.replies
    /\ timers' = s.timers
    /\ outcome' = s.outcome

\* const nowEpoch = Date.now(); const response = await fetch(input, init);
Attempt(s, now) ==
    [s EXCEPT !.nowEpoch = now,
              !.calls = Append(s.calls,
                               [input |-> s.input, init |-> s.init, at |-> now]),
              !.pc = "fetching"]

\* Faulty variant: const init = gretchenInit, so that the method, the headers
\* and the body are written to the object the caller passed.
AfterCall_WritesToCaller(s, now) ==
    LET i == ResolveInit(s.input, s.gretchenInit) IN
    Attempt([s EXCEPT !.init = i,
                      !.gretchenInit =
                          [k \in DOMAIN s.gretchenInit \cup DOMAIN i |->
                              IF k \in DOMAIN i THEN i[k]
                              ELSE s.gretchenInit[k]]],
            now)

\* The call of gretchen up to its first await, lines 111-149.
AfterCall(s, now) ==
    Attempt([s EXCEPT !.init = ResolveInit(s.input, s.gretchenInit)], now)

\* Faulty variant: the timer is started and not awaited, and the next
\* transport call is made at once.
AfterResponse_TimerNotAwaited(s, r) ==
    LET d == RetryDecision(s.gretchenInit, r, s.nowEpoch)
        t == [s EXCEPT !.response = r,
                       !.server = Tail(s.server),
                       !.replies = Append(s.replies, Head(s.server))]
    IN  IF d.retry
        THEN Attempt([t EXCEPT !.timers = Append(s.timers, d.delay)],
                     s.nowEpoch)
        ELSE [t EXCEPT !.pc = "done", !.outcome = Finalize(s.gretchenInit, r)]

\* Faulty variant: throwOnError is looked at before the retry.
AfterResponse_ThrowsBeforeRetrying(s, r) ==
    LET d == RetryDecision(s.gretchenInit, r, s.nowEpoch)
        t == [s EXCEPT !.response = r,
                       !.server = Tail(s.server),
                       !.replies = Append(s.replies, Head(s.server))]
    IN  IF d.retry /\ ~ Throws(s.gretchenInit, r)
        THEN [t EXCEPT !.timers = Append(s.timers, d.delay), !.pc = "sleeping"]
        ELSE [t EXCEPT !.pc = "done", !.outcome = Finalize(s.gretchenInit, r)]

\* Faulty variant: a response is retried once, and the next one is finalized
\* whatever it is.
AfterResponse_RetriesOnce(s, r) ==
    LET d == RetryDecision(s.gretchenInit, r, s.nowEpoch)
        t == [s EXCEPT !.response = r,
                       !.server = Tail(s.server),
                       !.replies = Append(s.replies, Head(s.server))]
    IN  IF d.retry /\ s.timers = <<>>
        THEN [t EXCEPT !.timers = Append(s.timers, d.delay), !.pc = "sleeping"]
        ELSE [t EXCEPT !.pc = "done", !.outcome = Finalize(s.gretchenInit, r)]

\* fetch has resolved with the response r: it is retried or finalized, lines
\* 149-180.
AfterResponse(s, r) ==
    LET d == RetryDecision(s.gretchenInit, r, s.nowEpoch)
        t == [s EXCEPT !.response = r,
                       !.server = Tail(s.server),
                       !.replies = Append(s.replies, Head(s.server))]
    IN  IF d.retry
        THEN [t EXCEPT !.timers = Append(s.timers, d.delay), !.pc = "sleeping"]
        ELSE [t EXCEPT !.pc = "done", !.outcome = Finalize(s.gretchenInit, r)]

\* Faulty variant: the failure of fetch is caught and the call is made again.
AfterFailure_CaughtAndRetried(s) ==
    [s EXCEPT !.server = Tail(s.server),
              !.replies = Append(s.replies, Head(s.server)),
              !.timers = Append(s.timers, 0),
              !.pc = "sleeping"]

\* fetch has rejected: the invocation fails with the same error, line 149.
AfterFailure(s) ==
    [s EXCEPT !.server = Tail(s.server),
              !.replies = Append(s.replies, Head(s.server)),
              !.pc = "done",
              !.outcome = TransportFailure]

\* Faulty variant: the body is serialized inside the loop, so that a retry
\* sends the serialized body serialized once more.
AfterTimer_SerializesAgain(s, now) ==
    Attempt([s EXCEPT !.init = IF SendsJSON(s.gretchenInit) /\ ~ IsRequest(s.input)
                                THEN Put(s.init, "body",
                                         JSONstringify(Get(s.init, "body")))
                                ELSE s.init],
            now)

\* The timer has completed and the loop starts over, lines 156-159, 164-167 and
\* 147-149.
AfterTimer(s, now) == Attempt(s, now)

\* Whether a reply of the given kind is there for the pending transport call.
Answered(s, kind) ==
    s.pc = "fetching" /\ s.server # <<>> /\ Head(s.server).kind = kind

\* Whether time may pass for the pending transport call.
MayTick(s) ==
    s.pc = "fetching" /\ clock < s.nowEpoch + MaxTicks * MsPerTick

\* gretchen is called.
Gretchen ==
    /\ pc = "start"
    /\ clock' = clock
    /\ Becomes(AfterCall(Self, clock))
    /\ UNCHANGED created

\* Time passes while the transport call is pending.
Tick ==
    /\ MayTick(Self)
    /\ clock' = clock + MsPerTick
    /\ UNCHANGED <<direct, created>>

\* fetch resolves.
FetchResolves ==
    /\ Answered(Self, "response")
    /\ clock' = clock
    /\ Becomes(AfterResponse(Self, Head(server).response))
    /\ UNCHANGED created

\* fetch rejects.
FetchRejects ==
    /\ Answered(Self, "failure")
    /\ clock' = clock
    /\ Becomes(AfterFailure(Self))
    /\ UNCHANGED created

\* The timer completes after its delay.
TimerFires ==
    /\ pc = "sleeping"
    /\ clock' = clock + timers[Len(timers)]
    /\ Becomes(AfterTimer(Self, clock'))
    /\ UNCHANGED created

Next == Gretchen \/ Tick \/ FetchResolves \/ FetchRejects \/ TimerFires

Spec == Init /\ [][Next]_vars

\* The invocations whose configuration varies what the retry loop reads.
InitLoop ==
    /\ Init
    /\ input = Str(Url)
    /\ gretchenInit \in LoopConfigs
    /\ DOMAIN gretchenInit \cap {"body", "returnJSON"} = {}

\* The call is made, every transport call the server answers settles, and
\* every timer completes.
SpecFair ==
    /\ InitLoop
    /\ [][Next]_vars
    /\ WF_vars(Gretchen)
    /\ WF_vars(FetchResolves)
    /\ WF_vars(FetchRejects)
    /\ WF_vars(TimerFires)

-----------------------------------------------------------------------------
(* createGretchen *)

\* Faulty variant: a key of b whose value is undefined does not replace the
\* key of a.
Spread_SkipsUndefined(a, b) ==
    [k \in DOMAIN a \cup DOMAIN b |->
        IF k \in DOMAIN b /\ (b[k] # Undefined \/ k \notin DOMAIN a)
        THEN b[k] ELSE a[k]]

\* { ...a, ...b }: the own keys of a, then those of b, a key of b replacing
\* the same key of a whatever its value.
Spread(a, b) ==
    [k \in DOMAIN a \cup DOMAIN b |-> IF k \in DOMAIN b THEN b[k] ELSE a[k]]

\* Faulty variant: Object.assign(initDefaults, init), which merges into the
\* captured object.
Bound_AssignsToDefaults(d, o) ==
    [gretchenInit |-> Spread(d, o), initDefaults |-> Spread(d, o)]

\* (input, init) => gretchen(input, {...initDefaults, ...init}), for the
\* captured object d and the call's options o: the configuration gretchen is
\* given, and what the captured object holds afterwards.
Bound(d, o) == [gretchenInit |-> Spread(d, o), initDefaults |-> d]

\* Bounds of the created function's runs.
MaxInvocations == 2

\* The defaults of the tests and of the README, and none.
Defaults ==
    {Keep(rec) : rec \in
        {[sendJSON |-> True, returnJSON |-> True, throwOnError |-> Absent,
          retryOnTooManyRequests |-> Absent],
         [sendJSON |-> True, returnJSON |-> True, throwOnError |-> True,
          retryOnTooManyRequests |-> True],
         [sendJSON |-> Absent, returnJSON |-> Absent, throwOnError |-> Absent,
          retryOnTooManyRequests |-> Absent]}}

\* A call of the created function that has not started: its options, and
\* what the server will answer.
Invocation(o, script) ==
    [overrides |-> o, defaultsAtCall |-> <<>>, input |-> Str(Url),
     gretchenInit |-> <<>>, server |-> script, pc |-> "start", init |-> <<>>,
     nowEpoch |-> 0, response |-> NoResponse, calls |-> <<>>,
     replies |-> <<>>, timers |-> <<>>, outcome |-> Pending]

Wednesday == Obj(<<"Wednesday", "pink">>)

\* The calls of the tests and of the README, and calls that are retried or
\* that fail.
Invocations ==
    {Invocation(<<>>, <<Reply(Response(200, Null, FooBar))>>),
     Invocation([body |-> Wednesday], <<Reply(Response(200, Null, FooBar))>>),
     Invocation([returnJSON |-> False],
                <<Reply(Response(200, Null, FooBar))>>),
     Invocation([returnJSON |-> Undefined],
                <<Reply(Response(TooManyRequests, Str("1"), "")),
                  Reply(Response(500, Null, FooBar))>>),
     Invocation(<<>>,
                <<Reply(Response(TooManyRequests, Str(DateFuture), "")),
                  Reply(Response(200, Null, FooBar))>>),
     Invocation([body |-> Wednesday, returnJSON |-> False], <<Failure>>)}

\* createGretchen has returned, and the calls of the function it returned are
\* about to be made.
InitCreated ==
    /\ initDefaults \in Defaults
    /\ boundDefaults = initDefaults
    /\ invocations \in [1..MaxInvocations -> Invocations]
    /\ clock \in StartEpochs
    /\ input = Str(Url)
    /\ gretchenInit = <<>>
    /\ server = <<>>
    /\ pc = "unused"
    /\ init = <<>>
    /\ nowEpoch = 0
    /\ response = NoResponse
    /\ calls = <<>>
    /\ replies = <<>>
    /\ timers = <<>>
    /\ outcome = Pending

\* The created function is called: it merges and calls gretchen.
Call(i) ==
    LET s == invocations[i]
        b == Bound(initDefaults, s.overrides)
    IN  /\ s.pc = "start"
        /\ initDefaults' = b.initDefaults
        /\ invocations' =
              [invocations EXCEPT
                 ![i] = AfterCall([s EXCEPT !.defaultsAtCall = initDefaults,
                                            !.gretchenInit = b.gretchenInit],
                                  clock)]
        /\ UNCHANGED <<direct, clock, boundDefaults>>

\* Time passes while a transport call is pending.
TimePasses ==
    /\ \E i \in DOMAIN invocations : MayTick(invocations[i])
    /\ clock' = clock + MsPerTick
    /\ UNCHANGED <<direct, created>>

\* fetch resolves in the i-th invocation.
Resolves(i) ==
    LET s == invocations[i]
    IN  /\ Answered(s, "response")
        /\ invocations' =
              [invocations EXCEPT
                 ![i] = AfterResponse(s, Head(s.server).response)]
        /\ UNCHANGED <<direct, clock, initDefaults, boundDefaults>>

\* fetch rejects in the i-th invocation.
Rejects(i) ==
    LET s == invocations[i]
    IN  /\ Answered(s, "failure")
        /\ invocations' = [invocations EXCEPT ![i] = AfterFailure(s)]
        /\ UNCHANGED <<direct, clock, initDefaults, boundDefaults>>

\* The timer of the i-th invocation completes, its delay having passed.
Wakes(i) ==
    LET s == invocations[i]
    IN  /\ s.pc = "sleeping"
        /\ clock' = clock + s.timers[Len(s.timers)]
        /\ invocations' = [invocations EXCEPT ![i] = AfterTimer(s, clock')]
        /\ UNCHANGED <<direct, initDefaults, boundDefaults>>

\* The caller writes to the object it gave to createGretchen.
CallerWrites ==
    /\ invocations # <<>>
    /\ initDefaults = boundDefaults
    /\ initDefaults' \in Defaults \ {initDefaults}
    /\ UNCHANGED <<direct, clock, boundDefaults, invocations>>

BoundCall == \E i \in DOMAIN invocations : Call(i)
BoundResolves == \E i \in DOMAIN invocations : Resolves(i)
BoundRejects == \E i \in DOMAIN invocations : Rejects(i)
BoundWakes == \E i \in DOMAIN invocations : Wakes(i)

NextCreated ==
    \/ BoundCall
    \/ TimePasses
    \/ BoundResolves
    \/ BoundRejects
    \/ BoundWakes
    \/ CallerWrites

SpecCreated == InitCreated /\ [][NextCreated]_vars

\* Every call of the created function is made, every transport call the
\* server answers settles, and every timer completes.
SpecCreatedFair ==
    /\ InitCreated
    /\ [][NextCreated]_vars
    /\ \A i \in 1..MaxInvocations :
          /\ WF_vars(Call(i))
          /\ WF_vars(Resolves(i))
          /\ WF_vars(Rejects(i))
          /\ WF_vars(Wakes(i))

-----------------------------------------------------------------------------
(* Vocabulary of the properties *)

Done == pc = "done"

JSONOptions == {"sendJSON", "requestJSON", "returnJSON"}
BehaviourOptions == JSONOptions \cup {"retryOnTooManyRequests", "throwOnError"}

\* What fetch alone makes of a reply: the response, or the failure.
DirectOutcome(reply) ==
    IF reply.kind = "failure" THEN TransportFailure
    ELSE Returned(reply.response)

\* The options of a transport call and the configuration agree on every key
\* that fetch reads, an absent key reading as undefined; fetch takes a null
\* body and an undefined body alike, as no body.
SameOptions(i, cfg) ==
    \A k \in (DOMAIN i \cup DOMAIN cfg) \ BehaviourOptions :
        \/ Get(i, k) = Get(cfg, k)
        \/ k = "body" /\ IsNullish(Get(i, k)) /\ IsNullish(Get(cfg, k))

\* One transport call, with the caller's target, settled as fetch settles it.
ActsAsFetch(expected) ==
    /\ Len(calls) <= 1
    /\ timers = <<>>
    /\ pc # "start" => /\ Len(calls) = 1
                       /\ calls[1].input = input
                       /\ expected
    /\ Len(replies) <= 1
    /\ Len(replies) = 1 => Done /\ outcome = DirectOutcome(replies[1])

-----------------------------------------------------------------------------
(* C1 *)

-----------------------------------------------------------------------------
(* Vocabulary of the retry properties *)

RetryEnabled == Truthy(Get(gretchenInit, "retryOnTooManyRequests"))

\* The k-th reply is a 429 response whose Retry-After value is one of texts.
Is429With(k, texts) ==
    /\ replies[k].kind = "response"
    /\ replies[k].response.status = 429
    /\ replies[k].response.headers \in
           {<<"Headers", <<"retry-after", t>>>> : t \in texts}

\* The k-th reply is a 429 response without a Retry-After header.
Is429Without(k) ==
    /\ replies[k].kind = "response"
    /\ replies[k].response.status = 429
    /\ replies[k].response.headers = <<"Headers", <<>>>>

\* The Retry-After value of the k-th reply.
RetryAfterOf(k) == replies[k].response.headers[2][2]

\* The k-th reply was not finalized: a timer of the given delay follows it,
\* and nothing but the next transport call follows the timer.
RetriedAfter(k, delay) ==
    /\ Len(timers) >= k
    /\ timers[k] = delay
    /\ Len(replies) = k =>
          /\ outcome = Pending
          /\ \/ pc = "sleeping" /\ Len(calls) = k /\ ENABLED TimerFires
             \/ pc = "fetching" /\ Len(calls) = k + 1
    /\ Len(replies) > k => Len(calls) > k

\* The invocation has settled on its last reply, the response r.
SettledOn(r) ==
    /\ Done
    /\ Len(calls) = Len(replies)
    /\ outcome.response = r
    /\ outcome.state = "fulfilled" =>
          outcome.kind \in {"Response", "JSON"}

-----------------------------------------------------------------------------
(* C2 *)

\* C2: with retryOnTooManyRequests set, a 429 whose Retry-After is all digits N
\* is not finalized: a timer of exactly N*1000 ms is started and the next
\* transport call follows it.  A fulfilled invocation returns from its last
\* call's response, and one such 429 followed by a response that is not a 429
\* makes exactly two calls and settles on the second response.
C2_DigitsRetry ==
    RetryEnabled =>
        /\ \A k \in 1..Len(replies) :
              /\ Is429With(k, {"1"}) => RetriedAfter(k, 1000)
              /\ Is429With(k, {"02"}) => RetriedAfter(k, 2000)
        /\ (Done /\ outcome.state = "fulfilled") =>
              /\ Len(calls) = Len(replies)
              /\ outcome.response = replies[Len(replies)].response
        /\ ( /\ Len(replies) >= 2
             /\ Is429With(1, {"1", "02"})
             /\ replies[2].kind = "response"
             /\ replies[2].response.status # 429 ) =>
              /\ Len(calls) = 2
              /\ Len(replies) = 2
              /\ SettledOn(replies[2].response)

\* A 429 with Retry-After: 02, then a 200: two calls, one timer of 2000 ms, and
\* the second response returned.
C2_Witness ==
    /\ Done
    /\ RetryEnabled
    /\ Len(replies) = 2
    /\ Is429With(1, {"02"})
    /\ replies[2].response.status = 200
    /\ timers = <<2000>>
    /\ Len(calls) = 2
    /\ outcome = Returned(replies[2].response)

-----------------------------------------------------------------------------
(* C3 *)

\* The epoch milliseconds of the dates the server sends.
EpochOf(text) == IF text = DatePast THEN 1000 ELSE 3000

\* C3: with retryOnTooManyRequests set, a 429 whose Retry-After is a date is
\* always retried, after max(0, the date's epoch ms - the time recorded when
\* that attempt started, before its transport call): never a negative delay,
\* and zero for a date at or before the attempt's start.
C3_DateRetry ==
    RetryEnabled =>
        \A k \in 1..Len(replies) :
            Is429With(k, {DatePast, DateFuture}) =>
                /\ RetriedAfter(k, Max(0, EpochOf(RetryAfterOf(k)) - calls[k].at))
                /\ timers[k] >= 0
                /\ EpochOf(RetryAfterOf(k)) <= calls[k].at => timers[k] = 0

\* A date one second after the attempt's start, answered half a second into
\* the attempt: the timer is one second.
C3_Witness ==
    /\ pc = "sleeping"
    /\ Len(replies) = 1
    /\ Is429With(1, {DateFuture})
    /\ calls[1].at = 2000
    /\ clock = 2500
    /\ timers = <<1000>>

-----------------------------------------------------------------------------
(* C4 *)

\* C4: with retryOnTooManyRequests set, a 429 with no Retry-After header, or
\* with a value that is neither all digits nor a date (foo, or the empty
\* value), starts no timer and no
\* further transport call: it is the terminal response, raised as HTTPError
\* when throwOnError is set and returned to the caller otherwise.
C4_NoRetry ==
    RetryEnabled =>
        \A k \in 1..Len(replies) :
            (Is429Without(k) \/ Is429With(k, {"foo", ""})) =>
                /\ Len(replies) = k
                /\ Len(calls) = k
                /\ Len(timers) = k - 1
                /\ SettledOn(replies[k].response)
                /\ IF Truthy(Get(gretchenInit, "throwOnError"))
                   THEN outcome.kind = "HTTPError"
                   ELSE outcome.kind # "HTTPError"
                /\ ( /\ ~ Truthy(Get(gretchenInit, "throwOnError"))
                     /\ ~ Truthy(Get(gretchenInit, "returnJSON")) ) =>
                       outcome = Returned(replies[k].response)

\* A 429 with Retry-After: foo came second, after a retried 429, and was
\* returned.
C4_Witness ==
    /\ Done
    /\ RetryEnabled
    /\ Len(replies) = 2
    /\ Is429With(2, {"foo"})
    /\ Len(calls) = 2
    /\ outcome = Returned(replies[2].response)

-----------------------------------------------------------------------------
(* Vocabulary of the finalization properties *)

ThrowOnError == Truthy(Get(gretchenInit, "throwOnError"))
ReturnJSON == Truthy(Get(gretchenInit, "returnJSON"))

\* The invocation has settled on a response: its last reply.
Terminal == Done /\ replies[Len(replies)].kind = "response"
TerminalResponse == replies[Len(replies)].response

\* The status is in the success range.
Success(r) == r.status \in 200..299

\* `${status} ${statusText}` of the responses the server sends.
MessageOf(r) ==
    CASE r.status = 500 -> "500 Internal Server Error"
      [] r.status = 503 -> "503 Service Unavailable"
      [] r.status = 429 -> "429 Too Many Requests"
      [] r.status = 200 -> "200 OK"

-----------------------------------------------------------------------------
(* C5 *)

\* C5: the invocation fails with an HTTPError if and only if throwOnError is
\* truthy and the terminal response's status is outside the success range; the
\* error's message is "<status> <statusText>" and its response is that terminal
\* response.  Without throwOnError no HTTPError is ever raised.
C5_ThrowOnError ==
    /\ ~ Done => outcome = Pending
    /\ Done =>
          /\ outcome.kind = "HTTPError" <=>
                (ThrowOnError /\ Terminal /\ ~ Success(TerminalResponse))
          /\ outcome.kind = "HTTPError" =>
                /\ outcome.state = "rejected"
                /\ outcome.message = MessageOf(TerminalResponse)
                /\ outcome.response = TerminalResponse
    /\ ~ ThrowOnError => outcome.kind # "HTTPError"

\* throwOnError and a 500: the invocation failed with "500 Internal Server
\* Error".
C5_Witness ==
    /\ Done
    /\ ThrowOnError
    /\ outcome.kind = "HTTPError"
    /\ outcome.message = "500 Internal Server Error"
    /\ outcome.response.status = 500

-----------------------------------------------------------------------------
(* C6 *)

\* C6: the finalization has one outcome, chosen from the terminal response in
\* this order: HTTPError when throwOnError is set and the status is not a
\* success; otherwise, when returnJSON is truthy, the body parsed as JSON (or
\* the parser's failure); otherwise the response itself.
C6_Priority ==
    Terminal =>
        IF ThrowOnError /\ ~ Success(TerminalResponse)
        THEN outcome.state = "rejected" /\ outcome.kind = "HTTPError"
        ELSE IF ReturnJSON
        THEN IF TerminalResponse.body = FooBar
             THEN /\ outcome.state = "fulfilled"
                  /\ outcome.kind = "JSON"
                  /\ outcome.value = Obj(<<"foo", "bar">>)
             ELSE outcome.state = "rejected" /\ outcome.kind = "SyntaxError"
        ELSE outcome = Returned(TerminalResponse)

\* throwOnError and returnJSON both set, and a 500 whose body is JSON: the
\* invocation failed with HTTPError and the body was not returned.
C6_Witness ==
    /\ Terminal
    /\ ThrowOnError
    /\ ReturnJSON
    /\ TerminalResponse.status = 500
    /\ TerminalResponse.body = FooBar
    /\ outcome.kind = "HTTPError"

-----------------------------------------------------------------------------
(* Vocabulary of the option-resolution properties *)

\* The target is a string or a URL, not a pre-built Request.
UrlTarget == input[1] \in {"string", "URL"}

\* The values the caller's headers give under a name, in any letter case.
CallerValues(name) ==
    LET h == Get(gretchenInit, "headers") IN
    IF h = Undefined THEN {}
    ELSE {h[2][i + 1] : i \in {j \in 1..Len(h[2]) :
                                  j % 2 = 1 /\ Lower(h[2][j]) = name}}

\* The value of a header as the transport reads it from the options of a call:
\* the set of the values under the name, in any letter case.
SentValues(call, name) ==
    LET h == Get(call.init, "headers") IN
    IF h = Undefined THEN {}
    ELSE {h[2][i + 1] : i \in {j \in 1..Len(h[2]) :
                                  j % 2 = 1 /\ Lower(h[2][j]) = name}}

\* The header of a call is the caller's if the caller gave one, and otherwise
\* the default when it applies and none when it does not.
HeaderResolved(call, name, applies, default) ==
    SentValues(call, name) =
        IF CallerValues(name) # {} THEN CallerValues(name)
        ELSE IF applies THEN {default}
        ELSE {}

\* The JSON text of the bodies in use.
JSONTextOf(v) ==
    CASE v = Null -> "null"
      [] v = False -> "false"
      [] v = Zero -> "0"
      [] v = Str("") -> "\"\""
      [] v = Str("pink") -> "\"pink\""
      [] v = Obj(<<"Wednesday", "pink">>) -> "{\"Wednesday\":\"pink\"}"

SendJSON == Truthy(Get(gretchenInit, "sendJSON"))
BodyDefined ==
    "body" \in DOMAIN gretchenInit /\ gretchenInit["body"] # Undefined

\* The options of a call hold the caller's value under the key, or do not hold
\* the key when the caller's do not.
SameKey(call, key) ==
    /\ (key \in DOMAIN call.init) <=> (key \in DOMAIN gretchenInit)
    /\ key \in DOMAIN gretchenInit => call.init[key] = gretchenInit[key]

-----------------------------------------------------------------------------
(* C7 *)

\* C7: for a string or URL target, every transport call carries the caller's
\* Accept value unchanged when the caller gave one in any letter case;
\* otherwise it carries Accept: application/json when requestJSON or returnJSON
\* is truthy, and no Accept header when neither is.
C7_Accept ==
    UrlTarget =>
        \A k \in 1..Len(calls) :
            HeaderResolved(calls[k], "accept",
                           Truthy(Get(gretchenInit, "requestJSON")) \/ ReturnJSON,
                           "application/json")

\* requestJSON with the caller's own ACCEPT header: the call carries the
\* caller's value and no other.
C7_Witness ==
    /\ UrlTarget
    /\ Len(calls) = 1
    /\ Truthy(Get(gretchenInit, "requestJSON"))
    /\ CallerValues("accept") = {"application/json; charset=utf-8"}
    /\ SentValues(calls[1], "accept") = {"application/json; charset=utf-8"}
    /\ HeadersGet(calls[1].init["headers"], "Accept")
           = Str("application/json; charset=utf-8")

-----------------------------------------------------------------------------
(* C8 *)

\* C8: for a string or URL target with sendJSON truthy and a body other than
\* undefined (null, false, 0 and "" included), every transport call's body is
\* the JSON text of the caller's body, its method is the caller's, or POST when
\* the caller gave none, and its Content-Type is the caller's, in whatever
\* letter case, or application/json when the caller gave none.
C8_SendJSON ==
    (UrlTarget /\ SendJSON /\ BodyDefined) =>
        \A k \in 1..Len(calls) :
            /\ Get(calls[k].init, "body") = Str(JSONTextOf(gretchenInit["body"]))
            /\ Get(calls[k].init, "method") =
                  IF "method" \in DOMAIN gretchenInit
                  THEN gretchenInit["method"] ELSE Str("POST")
            /\ HeaderResolved(calls[k], "content-type", TRUE, "application/json")

\* sendJSON with a null body, no method and no headers: the call is a POST of
\* the text null with Content-Type: application/json.
C8_Witness ==
    /\ UrlTarget
    /\ Len(calls) = 1
    /\ SendJSON
    /\ Get(gretchenInit, "body") = Null
    /\ DOMAIN gretchenInit \cap {"method", "headers"} = {}
    /\ calls[1].init["body"] = Str("null")
    /\ calls[1].init["method"] = Str("POST")
    /\ SentValues(calls[1], "content-type") = {"application/json"}

-----------------------------------------------------------------------------
(* C9 *)

\* C9: for a string or URL target with sendJSON falsy or the body undefined,
\* every transport call holds the caller's body as it is (undefined when
\* absent), the caller's method or none (POST is not defaulted) and no
\* Content-Type but the caller's.
C9_BodyUnchanged ==
    (UrlTarget /\ ~ (SendJSON /\ BodyDefined)) =>
        \A k \in 1..Len(calls) :
            /\ "body" \in DOMAIN calls[k].init
            /\ calls[k].init["body"] = Get(gretchenInit, "body")
            /\ SameKey(calls[k], "method")
            /\ HeaderResolved(calls[k], "content-type", FALSE, "")

\* sendJSON set and no body, method or headers given: the call has no method,
\* an undefined body and no Content-Type.
C9_Witness ==
    /\ UrlTarget
    /\ Len(calls) = 1
    /\ SendJSON
    /\ DOMAIN gretchenInit \cap {"body", "method", "headers"} = {}
    /\ "method" \notin DOMAIN calls[1].init
    /\ calls[1].init["body"] = Undefined
    /\ SentValues(calls[1], "content-type") = {}

-----------------------------------------------------------------------------
(* C10 *)

\* C10: for a Request target, whatever requestJSON, returnJSON and sendJSON
\* are, every transport call gets that same Request and the pass-through
\* options as the caller gave them: the caller's headers and method or none,
\* no body, and none of gretchen's own options.
C10_RequestUntouched ==
    ~ UrlTarget =>
        \A k \in 1..Len(calls) :
            /\ calls[k].input = input
            /\ DOMAIN calls[k].init =
                  DOMAIN gretchenInit \ (BehaviourOptions \cup {"body"})
            /\ \A key \in DOMAIN calls[k].init :
                  calls[k].init[key] = gretchenInit[key]

\* A Request target with requestJSON, sendJSON and a body: the call holds
\* neither headers nor a method nor a body.
C10_Witness ==
    /\ ~ UrlTarget
    /\ Len(calls) = 1
    /\ SendJSON
    /\ Truthy(Get(gretchenInit, "requestJSON"))
    /\ BodyDefined
    /\ DOMAIN gretchenInit \cap {"method", "headers"} = {}
    /\ calls[1].input = <<"Request", <<Url>>>>
    /\ DOMAIN calls[1].init \cap {"method", "headers", "body"} = {}

\* gretchen called by itself, or through a function createGretchen returned.
InitEither == Init \/ InitCreated
NextEither == Next \/ NextCreated
SpecEither == InitEither /\ [][NextEither]_vars

-----------------------------------------------------------------------------
(* Vocabulary of the properties of a created function *)

Callers == DOMAIN invocations

\* The i-th call of the created function has been made.
Called(i) == invocations[i].pc # "start"

\* The i-th call of the created function has settled.
Settled(i) == invocations[i].pc = "done"

TestDefaults == [sendJSON |-> True, returnJSON |-> True]

-----------------------------------------------------------------------------
(* C11 *)

\* C11: the configuration a call of the created function hands to gretchen
\* has the keys of the defaults and of the overrides; each key of the
\* overrides has the overrides' value, false and undefined included, and each
\* other key the defaults' value.  With the defaults {sendJSON: true,
\* returnJSON: true}, the override {body: b} returns the parsed JSON body and
\* the override {returnJSON: false} returns the response.
C11_ShallowMerge ==
    \A i \in Callers :
        LET s == invocations[i]
            d == s.defaultsAtCall
            o == s.overrides
            cfg == s.gretchenInit
        IN  /\ Called(i) =>
                /\ DOMAIN cfg = DOMAIN d \cup DOMAIN o
                /\ \A k \in DOMAIN o : cfg[k] = o[k]
                /\ \A k \in DOMAIN d \ DOMAIN o : cfg[k] = d[k]
            /\ (/\ Settled(i)
                /\ d = TestDefaults
                /\ s.replies[Len(s.replies)].kind = "response")
               => LET r == s.replies[Len(s.replies)].response
                  IN  /\ o = [body |-> Wednesday] =>
                          /\ s.outcome.state = "fulfilled"
                          /\ s.outcome.kind = "JSON"
                          /\ s.outcome.value = JSONparse(r.body)
                      /\ o = [returnJSON |-> False] =>
                          /\ s.outcome.state = "fulfilled"
                          /\ s.outcome.kind = "Response"
                          /\ s.outcome.response = r

\* Over the defaults {sendJSON: true, returnJSON: true}, one call overrode
\* returnJSON with undefined and was handed undefined, and another gave a
\* body and received the parsed JSON.
C11_Witness ==
    \E i, j \in Callers :
        /\ Called(i)
        /\ invocations[i].defaultsAtCall = TestDefaults
        /\ invocations[i].overrides = [returnJSON |-> Undefined]
        /\ invocations[i].gretchenInit =
              [sendJSON |-> True, returnJSON |-> Undefined]
        /\ Settled(j)
        /\ invocations[j].defaultsAtCall = TestDefaults
        /\ invocations[j].overrides = [body |-> Wednesday]
        /\ invocations[j].outcome.kind = "JSON"
        /\ invocations[j].outcome.value = JSONparse(FooBar)

-----------------------------------------------------------------------------
(* C12 *)

\* The Retry-After values that give a delay: digits, or a date.
UsableTexts == {"1", "02", DatePast, DateFuture}

\* The first n replies are 429 responses with a usable Retry-After.
AllRetriable(n) ==
    /\ Len(replies) >= n
    /\ \A k \in 1..n : Is429With(k, UsableTexts)

\* C12: with retryOnTooManyRequests set, the invocation never settles on a
\* 429 with a usable Retry-After, however many came before it: after n such
\* responses in a row it has not returned or thrown, n timers have been
\* started, and the (n+1)-th transport call is made.
C12_NoRetryCap ==
    /\ [](RetryEnabled =>
            \A n \in 1..Len(replies) :
                AllRetriable(n) =>
                    /\ Len(timers) >= n
                    /\ Len(calls) >= n
                    /\ Len(replies) = n => ~ Done /\ outcome = Pending
                    /\ Len(replies) > n => Len(calls) >= n + 1)
    /\ (RetryEnabled /\ replies # <<>> /\ AllRetriable(Len(replies)))
          ~> (Len(calls) = Len(replies) + 1 /\ outcome = Pending)

\* As many 429 responses with a usable Retry-After as the server's script
\* holds have come, and one more transport call is pending.
C12_Witness ==
    /\ RetryEnabled
    /\ Len(replies) = MaxScript
    /\ AllRetriable(MaxScript)
    /\ Len(calls) = MaxScript + 1
    /\ pc = "fetching"
    /\ outcome = Pending

-----------------------------------------------------------------------------
(* C13 *)

\* C13: the options of every transport call hold none of requestJSON,
\* retryOnTooManyRequests, returnJSON, sendJSON and throwOnError.  Every key
\* they hold is body, headers, or a key of the configuration that is not an
\* option of gretchen, with the configuration's value; the one key that may
\* be added is the method, POST, of a body sent as JSON.
C13_NothingRecognizedForwarded ==
    \A k \in 1..Len(calls) :
        LET sent == calls[k].init IN
        /\ DOMAIN sent \cap BehaviourOptions = {}
        /\ \A key \in DOMAIN sent \ {"body", "headers"} :
              \/ key \in DOMAIN gretchenInit /\ sent[key] = gretchenInit[key]
              \/ /\ key = "method"
                 /\ sent[key] = Str("POST")
                 /\ SendJSON
                 /\ BodyDefined
        /\ \A key \in DOMAIN gretchenInit \ (BehaviourOptions \cup {"body"}) :
              key \in DOMAIN sent

\* A transport call was made for a configuration holding the five options
\* and credentials: credentials is in its options.
C13_Witness ==
    /\ Len(calls) >= 1
    /\ BehaviourOptions \subseteq DOMAIN gretchenInit
    /\ "credentials" \in DOMAIN gretchenInit
    /\ "credentials" \in DOMAIN calls[1].init
    /\ calls[1].init["credentials"] = Str("include")
    /\ DOMAIN calls[1].init \cap BehaviourOptions = {}

-----------------------------------------------------------------------------
(* C14 *)

\* C14: a transport call that fails is the last thing the invocation does,
\* whichever attempt it is and whether or not retryOnTooManyRequests is set:
\* the invocation is rejected with the transport's own failure, which is not
\* an HTTPError and not a value, and no transport call and no timer follows.
C14_TransportFailure ==
    \A k \in 1..Len(replies) :
        replies[k].kind = "failure" =>
            /\ k = Len(replies)
            /\ Done
            /\ outcome = TransportFailure
            /\ outcome.state = "rejected"
            /\ outcome.kind # "HTTPError"
            /\ Len(calls) = k
            /\ Len(timers) = k - 1
            /\ ~ ENABLED Next

\* With retryOnTooManyRequests set, the second transport call failed, after
\* a 429 that was retried: the invocation is rejected with that failure.
C14_Witness ==
    /\ RetryEnabled
    /\ Len(replies) = 2
    /\ Is429With(1, UsableTexts)
    /\ replies[2].kind = "failure"
    /\ Len(calls) = 2
    /\ Len(timers) = 1
    /\ outcome = TransportFailure

-----------------------------------------------------------------------------
(* C15 *)

\* The configuration is the overrides merged, key by key, onto the defaults d.
MergedOnto(cfg, d, o) ==
    /\ DOMAIN cfg = DOMAIN d \cup DOMAIN o
    /\ \A k \in DOMAIN o : cfg[k] = o[k]
    /\ \A k \in DOMAIN d \ DOMAIN o : cfg[k] = d[k]

\* C15: whatever the caller does, after createGretchen has returned, to the
\* object it gave to createGretchen, every call of the created function hands
\* gretchen its overrides merged onto the defaults as they were when
\* createGretchen was called, so that no call sees a configuration that
\* another call or the caller has changed.
C15_DefaultsFixedAtBindTime ==
    \A i \in Callers :
        Called(i) =>
            MergedOnto(invocations[i].gretchenInit, boundDefaults,
                       invocations[i].overrides)

-----------------------------------------------------------------------------
(* C16 *)

\* What the invocation s has done is what its own arguments, the replies to
\* its own transport calls and the times of its own attempts give: the
\* resolved request, the calls, the delays and the outcome of an invocation
\* that runs alone.
AsAlone(s) ==
    LET cfg == s.gretchenInit
        n == Len(s.replies)
    IN  /\ s.pc = "start" => s.calls = <<>> /\ s.timers = <<>>
        /\ s.pc # "start" =>
              /\ MergedOnto(cfg, s.defaultsAtCall, s.overrides)
              /\ s.init = ResolveInit(s.input, cfg)
        /\ \A k \in 1..Len(s.calls) :
              /\ s.calls[k].input = s.input
              /\ s.calls[k].init = ResolveInit(s.input, cfg)
        /\ Len(s.calls) = IF s.pc = "fetching" THEN n + 1 ELSE n
        /\ Len(s.timers) = IF s.pc = "done" THEN n - 1 ELSE n
        /\ \A k \in 1..Len(s.timers) :
              /\ s.replies[k].kind = "response"
              /\ Retries(cfg, s.replies[k].response)
              /\ s.timers[k] = Delay(s.replies[k].response, s.calls[k].at)
        /\ s.pc = "done" =>
              /\ n >= 1
              /\ s.replies[n].kind = "failure" => s.outcome = TransportFailure
              /\ s.replies[n].kind = "response" =>
                    /\ ~ Retries(cfg, s.replies[n].response)
                    /\ s.outcome = Finalize(cfg, s.replies[n].response)
        /\ s.pc # "done" => s.outcome = Pending

\* Whatever the other invocations are doing, the i-th can take its next step:
\* be called, receive the reply that is there, or wake from its timer.
CanProgress(i) ==
    LET s == invocations[i] IN
    /\ s.pc = "start" => ENABLED Call(i)
    /\ Answered(s, "response") => ENABLED Resolves(i)
    /\ Answered(s, "failure") => ENABLED Rejects(i)
    /\ s.pc = "sleeping" => ENABLED Wakes(i)

\* A step of the i-th invocation changes nothing of another invocation and
\* nothing of the captured defaults.
StepsAlone(i) ==
    invocations'[i] # invocations[i] =>
        /\ initDefaults' = initDefaults
        /\ \A j \in Callers \ {i} : invocations'[j] = invocations[j]

\* C16: in every interleaving of the invocations, each one's resolved
\* request, transport calls, retry delays and outcome are those of an
\* invocation that runs alone against the same replies; a step of one
\* invocation changes nothing that another reads; and an invocation waiting
\* for its transport call or its timer keeps no other from its next step.
C16_Isolated ==
    /\ [](\A i \in Callers : AsAlone(invocations[i]) /\ CanProgress(i))
    /\ [][\A i \in Callers : StepsAlone(i)]_vars
    /\ \A i \in 1..MaxInvocations : <>Settled(i)

\* One invocation waits for its timer while another, whose first transport
\* call was issued at the same time, has settled and was fulfilled.
C16_Witness ==
    \E i, j \in Callers :
        /\ i # j
        /\ invocations[i].pc = "sleeping"
        /\ Settled(j)
        /\ invocations[j].outcome.state = "fulfilled"
        /\ invocations[j].calls[1].at = invocations[i].calls[1].at

-----------------------------------------------------------------------------
(* C17 *)

\* The reply is a retriable 429: retryOnTooManyRequests is set, and the reply
\* is a response of status 429 with a usable Retry-After.
Retriable(reply) ==
    /\ RetryEnabled
    /\ reply.kind = "response"
    /\ reply.response.status = 429
    /\ reply.response.headers \in
           {<<"Headers", <<"retry-after", t>>>> : t \in UsableTexts}

\* The server has yet to give a reply that is not a retriable 429.
ExitAhead == \E k \in 1..Len(server) : ~ Retriable(server[k])

\* C17: the invocation has completed on a reply if and only if that reply is
\* not a retriable 429, so that every reply before the last was one and the
\* loop went on after it; the invocation completes once the server gives a
\* reply that is not a retriable 429; and without retryOnTooManyRequests it
\* makes one transport call and no timer, whatever the reply.
C17_LoopExit ==
    /\ [](\A k \in 1..Len(replies) :
            ~ Retriable(replies[k]) <=> (k = Len(replies) /\ Done))
    /\ [](Done => Len(calls) = Len(replies) /\ Len(replies) >= 1)
    /\ [](~ RetryEnabled =>
            /\ Len(calls) <= 1
            /\ timers = <<>>
            /\ ~ Done => ExitAhead
            /\ Done => Len(calls) = 1)
    /\ ExitAhead ~> Done

\* With retryOnTooManyRequests set, a 429 with a usable Retry-After was
\* retried and the invocation completed on the 503 that followed, which
\* carries a Retry-After too.
C17_Witness ==
    /\ RetryEnabled
    /\ Done
    /\ Len(replies) = 2
    /\ Len(calls) = 2
    /\ Retriable(replies[1])
    /\ replies[2].response.status = 503
    /\ replies[2].response.headers = <<"Headers", <<"retry-after", "1">>>>

-----------------------------------------------------------------------------
(* C18 *)

\* C18: once the invocation has failed with an HTTPError it takes no further
\* step: the error was raised on the last reply, after the loop ended, and no
\* transport call and no timer follows it.  With throwOnError and
\* retryOnTooManyRequests both set, every 429 with a usable Retry-After was
\* followed by a timer and not by an HTTPError.
C18_HTTPErrorLast ==
    /\ outcome.kind = "HTTPError" =>
          /\ Done
          /\ ~ ENABLED Next
          /\ Len(calls) = Len(replies)
          /\ Len(timers) = Len(replies) - 1
          /\ ~ Retriable(replies[Len(replies)])
          /\ outcome.response = replies[Len(replies)].response
    /\ (ThrowOnError /\ RetryEnabled) =>
          \A k \in 1..Len(replies) :
              Retriable(replies[k]) =>
                  /\ Len(timers) >= k
                  /\ outcome.kind = "HTTPError" => k < Len(replies)

\* With throwOnError and retryOnTooManyRequests both set, a 429 with a usable
\* Retry-After was retried and the 500 that followed was raised.
C18_Witness ==
    /\ ThrowOnError
    /\ RetryEnabled
    /\ Len(replies) = 2
    /\ Len(timers) = 1
    /\ Retriable(replies[1])
    /\ outcome.kind = "HTTPError"
    /\ outcome.response.status = 500

-----------------------------------------------------------------------------
(* C19 *)

\* C19: every transport call of the invocation, the first attempt and each
\* retry, is given the caller's target and the same options: the method, the
\* headers, the body and every other key are those of the first call, which
\* were resolved before it.
C19_SameRequestEveryAttempt ==
    \A k \in 1..Len(calls) :
        /\ calls[k].input = input
        /\ calls[k].init = init
        /\ DOMAIN calls[k].init = DOMAIN calls[1].init
        /\ \A key \in DOMAIN calls[1].init :
              calls[k].init[key] = calls[1].init[key]

\* A body sent as JSON was sent a second time, after a 429 that was retried,
\* with the same serialized text, the same method and the same headers.
C19_Witness ==
    /\ UrlTarget
    /\ SendJSON
    /\ Get(gretchenInit, "body") = Obj(<<"Wednesday", "pink">>)
    /\ Len(calls) = 2
    /\ Len(timers) = 1
    /\ calls[2].init["body"] = Str("{\"Wednesday\":\"pink\"}")
    /\ calls[2].init["method"] = calls[1].init["method"]
    /\ calls[2].init["headers"] = calls[1].init["headers"]
    /\ calls[2].init = calls[1].init

-----------------------------------------------------------------------------
(* C20 *)

\* The transport calls that have not completed, and the timers that have not
\* been followed by a transport call.
PendingCalls == Len(calls) - Len(replies)
PendingTimers ==
    IF calls = <<>> THEN Len(timers) ELSE Len(timers) - (Len(calls) - 1)

\* C20: the invocation starts with a transport call, and calls and timers
\* alternate: the k-th timer is started after the k-th call has completed
\* with a retriable 429, the (k+1)-th call is made after the k-th timer's
\* delay has passed, at most one call or timer is pending, and a completed
\* invocation has made one call more than it has started timers.
C20_Alternation ==
    /\ pc = "start" => calls = <<>> /\ timers = <<>> /\ replies = <<>>
    /\ PendingCalls \in {0, 1}
    /\ PendingTimers \in {0, 1}
    /\ PendingCalls + PendingTimers <= 1
    /\ PendingCalls = 1 <=> pc = "fetching"
    /\ PendingTimers = 1 <=> pc = "sleeping"
    /\ \A k \in 1..Len(timers) :
          /\ Len(replies) >= k
          /\ Retriable(replies[k])
    /\ \A k \in 2..Len(calls) :
          /\ Len(replies) >= k - 1
          /\ Len(timers) >= k - 1
          /\ calls[k].at >= calls[k - 1].at + timers[k - 1]
    /\ Done => Len(calls) = Len(timers) + 1

\* A call, a timer of one second and a second call, made more than one
\* second after the first: the invocation completed with two calls and one
\* timer.
C20_Witness ==
    /\ Done
    /\ Len(calls) = 2
    /\ Len(timers) = 1
    /\ timers[1] = 1000
    /\ calls[2].at > calls[1].at + timers[1]

-----------------------------------------------------------------------------
(* C21 *)

-----------------------------------------------------------------------------
(* C22 *)

\* The headers as the transport reads them from a headers value, and their
\* names.
AsRead(h) == NewHeaders(h)
Names(h) == {h[2][j] : j \in {i \in 1..Len(h[2]) : i % 2 = 1}}

AcceptApplies ==
    UrlTarget /\ (Truthy(Get(gretchenInit, "requestJSON")) \/ ReturnJSON)
ContentTypeApplies == UrlTarget /\ SendJSON /\ BodyDefined

\* C22: in every transport call, whatever requestJSON, returnJSON and sendJSON
\* are, every header the caller gave is read by the transport with the
\* caller's value; a header the caller did not give is Accept or
\* Content-Type, present only when its option applies; and when both apply
\* and the caller gave neither, both are there.
C22_HeadersOnlyAdded ==
    \A k \in 1..Len(calls) :
        LET given == AsRead(Get(gretchenInit, "headers"))
            sent == AsRead(Get(calls[k].init, "headers"))
            added == Names(sent) \ Names(given)
        IN  /\ \A n \in Names(given) : HeadersGet(sent, n) = HeadersGet(given, n)
            /\ added \subseteq {"accept", "content-type"}
            /\ "accept" \in added => AcceptApplies
            /\ "content-type" \in added => ContentTypeApplies
            /\ (AcceptApplies /\ ContentTypeApplies) =>
                  {"accept", "content-type"} \subseteq Names(sent)

\* requestJSON and sendJSON with a body and the caller's header x-id: the
\* transport call carries x-id, Accept and Content-Type.
C22_Witness ==
    /\ UrlTarget
    /\ Truthy(Get(gretchenInit, "requestJSON"))
    /\ SendJSON
    /\ BodyDefined
    /\ Get(gretchenInit, "headers") = Obj(<<"x-id", "7">>)
    /\ Len(calls) = 1
    /\ calls[1].init["headers"] =
          <<"Headers", <<"x-id", "7", "accept", "application/json",
                         "content-type", "application/json">>>>

-----------------------------------------------------------------------------
(* C23 *)

\* No step changes the target and the configuration gretchen was called
\* with, its headers and its body included.
CallerKeepsConfig == input' = input /\ gretchenInit' = gretchenInit

\* No step changes the options the i-th call of a created function was made
\* with, or the configuration it handed to gretchen; and a step of that call
\* does not change the captured defaults.
CallerKeepsOverrides(i) ==
    /\ invocations'[i].overrides = invocations[i].overrides
    /\ invocations'[i].input = invocations[i].input
    /\ Called(i) => invocations'[i].gretchenInit = invocations[i].gretchenInit
    /\ invocations'[i] # invocations[i] => initDefaults' = initDefaults

\* C23: whatever the invocation does and however it ends, the configuration
\* the caller passed, with its headers and its body, and the defaults
\* createGretchen captured keep their keys and values; and the configuration
\* a created function hands to gretchen is its overrides merged onto the
\* defaults, nothing of the resolved request being written to it.
C23_CallerUntouched ==
    /\ [][CallerKeepsConfig]_vars
    /\ [][\A i \in Callers : CallerKeepsOverrides(i)]_vars
    /\ [](\A i \in Callers :
            Called(i) => MergedOnto(invocations[i].gretchenInit,
                                    invocations[i].defaultsAtCall,
                                    invocations[i].overrides))

\* gretchen was called with requestJSON, sendJSON, a body and the header
\* x-id, and has settled: the transport call carried the method POST, three
\* headers and the serialized body, and the configuration still holds the
\* one header, the body as an object and no method.
C23_Witness ==
    /\ Done
    /\ UrlTarget
    /\ Truthy(Get(gretchenInit, "requestJSON"))
    /\ SendJSON
    /\ Get(gretchenInit, "body") = Obj(<<"Wednesday", "pink">>)
    /\ Get(gretchenInit, "headers") = Obj(<<"x-id", "7">>)
    /\ "method" \notin DOMAIN gretchenInit
    /\ calls[1].init["method"] = Str("POST")
    /\ calls[1].init["body"] = Str("{\"Wednesday\":\"pink\"}")
    /\ Names(calls[1].init["headers"]) = {"x-id", "accept", "content-type"}

====
